---- MODULE Spec2Model ----
(***************************************************************************)
(* Forest-fire session route (app/api/forest-fire/route.ts): the session   *)
(* registry, session creation (POST), the streaming producer loop (GET),   *)
(* transport close (ReadableStream cancel) and explicit cancel (DELETE).   *)
(*                                                                         *)
(* JavaScript is single threaded: every handler runs to its next await.    *)
(* The only await of the producer loop is the per-tick timer, so one       *)
(* action models one handler, or one loop iteration from timer expiry to   *)
(* the next suspension (or to the end of start()).                         *)
(*                                                                         *)
(* A coordinate key `${x},${y}` is modelled as the pair <<x, y>>: for      *)
(* integers the formatting is injective, so keys are equal exactly when    *)
(* the pairs are.  Arrays are functions on 0..n-1 (JavaScript indices).    *)
(***************************************************************************)
EXTENDS Integers, Sequences, FiniteSets, TLC

VARIABLES
    sessions,   \* keys of the registry Map (route.ts:10)
    objs,       \* the session objects ever created, by id; a stream closure
                \* keeps its object after sessions.delete
    nextId,     \* the next fresh session id (uuidv4)
    streams,    \* the ReadableStreams created by GET, in creation order
    response,   \* the response of the last request handled
    request,    \* the body of the last create request handled
    requests    \* the number of requests handled so far

vars == <<sessions, objs, nextId, streams, response, request, requests>>

----------------------------------------------------------------------------
(* Bounds *)

MaxRequests == 4      \* requests (POST, GET, DELETE) handled in one behaviour
MaxFairRequests == 3  \* requests handled in one behaviour with fair timers
MaxW == 2             \* largest width of a create request
MaxH == 2             \* largest height of a create request
MaxCoord == 1         \* supplied cells have coordinates in -MaxCoord..MaxCoord
MaxCells == 2         \* longest supplied sparse cell list

----------------------------------------------------------------------------
(* Grid model *)

Key(cell) == <<cell.x, cell.y>>

Tree(x, y) == [x |-> x, y |-> y, state |-> "T", burnTime |-> 0]

\* Math.floor(n / 2)
HalfOf(n) == n \div 2

startOf(n) == 0 - HalfOf(n)

endOf(n) == HalfOf(n) + (IF n % 2 = 0 THEN 0 ELSE 1)

\* number of iterations of `for (i = startOf(n); i < endOf(n); i++)`
SpanOf(n) == IF endOf(n) > startOf(n) THEN endOf(n) - startOf(n) ELSE 0

\* the array built by the two nested loops pushing Trees, rows of y first
TreeCells(width, height) ==
    [i \in 0..(SpanOf(width) * SpanOf(height) - 1) |->
        Tree(startOf(width) + (i % SpanOf(width)),
             startOf(height) + (i \div SpanOf(width)))]

\* fullField.cells[index] = cell; index = array length appends
SetAt(cells, index, cell) ==
    [i \in (DOMAIN cells) \cup {index} |-> IF i = index THEN cell ELSE cells[i]]

\* the overlay loop over field.cells, in the order supplied
RECURSIVE Overlay(_, _, _)
Overlay(cells, supplied, coords) ==
    IF supplied = << >> THEN cells
    ELSE LET cell == Head(supplied)
             next == IF Key(cell) \in DOMAIN coords
                     THEN SetAt(cells, coords[Key(cell)], cell)
                     ELSE cells
         IN  Overlay(next, Tail(supplied), coords)

\* generateCoordMap (algorithm.ts) fails when two cells share a coordinate
DuplicateCoordinate(cells) ==
    \E i, j \in DOMAIN cells : i # j /\ Key(cells[i]) = Key(cells[j])

generateCoordMap(cells) ==
    [k \in {Key(cells[i]) : i \in DOMAIN cells} |->
        CHOOSE i \in DOMAIN cells : Key(cells[i]) = k]

\* the coordinates of the centred bounding box of a width x height field
Box(width, height) ==
    {<<x, y>> : x \in (0 - (width \div 2))..(width - (width \div 2) - 1),
                y \in (0 - (height \div 2))..(height - (height \div 2) - 1)}

----------------------------------------------------------------------------
(* Requests *)

Parts == {"field", "params", "coords"}

Coordinates == (0 - MaxCoord)..MaxCoord

SuppliedCell ==
    [x : Coordinates, y : Coordinates, state : {"B", "E"}, burnTime : {0}]

RECURSIVE SeqsUpTo(_, _)
SeqsUpTo(S, n) ==
    IF n = 0 THEN {<< >>}
    ELSE LET shorter == SeqsUpTo(S, n - 1)
         IN  shorter \cup {Append(s, e) : s \in shorter, e \in S}

KeysOf(supplied) == {Key(supplied[i]) : i \in DOMAIN supplied}

\* a client coords mapping: any index up to the array length, for any of the
\* supplied coordinates
CoordsFor(width, height, supplied) ==
    UNION {[K -> 0..(SpanOf(width) * SpanOf(height))] : K \in SUBSET KeysOf(supplied)}

\* the parameters of a request; the route reads only updateInterval
Params == [updateInterval |-> 1, burnDuration |-> 1, ignite |-> "maybe"]

Body(present, w, h, s, c) ==
    [present |-> present, field |-> [width |-> w, height |-> h, cells |-> s],
     params |-> Params, coords |-> c]

SuppliedLists == SeqsUpTo(SuppliedCell, MaxCells)

----------------------------------------------------------------------------
(* Session creation *)

NoResponse == [op |-> "none", id |-> 0, status |-> 0, sessionId |-> 0]

\* the outcome of a request: the handler, the sessionId query parameter, the
\* HTTP status and the session id returned in the body
Response(op, id, status, sessionId) ==
    [op |-> op, id |-> id, status |-> status, sessionId |-> sessionId]

\* route.ts:36-68, the dense field before generateCoordMap
fullCells(body) ==
    Overlay(TreeCells(body.field.width, body.field.height),
            body.field.cells, body.coords)

NewSession(body) ==
    LET cells == fullCells(body)
        coordMap == generateCoordMap(cells)
    IN  [field |-> [width |-> body.field.width, height |-> body.field.height,
                    cells |-> cells, coordMap |-> coordMap],
         params |-> body.params,
         coordMap |-> coordMap,
         aborted |-> FALSE]

NoRequest == [present |-> {}, field |-> [width |-> 0, height |-> 0, cells |-> << >>],
              params |-> Params, coords |-> << >>]

\* `!field || !params || !coords` with the test of coords left out
MissingFieldOrParams(body) == ~({"field", "params"} \subseteq body.present)

\* `!field || !params || !coords`
Missing(body) == body.present # Parts

\* one more request is handled
Handled == requests < MaxRequests /\ requests' = requests + 1

POST(body) ==
    /\ Handled
    /\ request' = body
    /\ IF Missing(body)
       THEN /\ response' = Response("POST", 0, 400, 0)
            /\ UNCHANGED <<sessions, objs, nextId>>
       ELSE IF DuplicateCoordinate(fullCells(body))
       THEN /\ response' = Response("POST", 0, 500, 0)
            /\ UNCHANGED <<sessions, objs, nextId>>
       ELSE /\ sessions' = sessions \cup {nextId}
            /\ objs' = [i \in (DOMAIN objs) \cup {nextId} |->
                          IF i = nextId THEN NewSession(body) ELSE objs[i]]
            /\ nextId' = nextId + 1
            /\ response' = Response("POST", 0, 200, nextId)
    /\ UNCHANGED streams

----------------------------------------------------------------------------
(* Frontier tracker and generation engine.  app/algorithm/algorithm.ts is   *)
(* imported by the route (route.ts:2-6); these definitions follow its       *)
(* description: the frontier is every Burning cell and every Tree with a    *)
(* Burning von Neumann neighbour; a Burning cell burns out once its         *)
(* burnTime reaches the threshold; a frontier Tree next to a Burning cell   *)
(* ignites on a random trial; all cells are evaluated against the field     *)
(* before the tick; the delta holds the cells that changed.                 *)

Neighbors(k) ==
    {<<k[1] - 1, k[2]>>, <<k[1] + 1, k[2]>>, <<k[1], k[2] - 1>>, <<k[1], k[2] + 1>>}

\* a neighbour looked up through the coordinate index is Burning
BurningNeighbor(cells, coordMap, k) ==
    \E n \in Neighbors(k) \cap DOMAIN coordMap : cells[coordMap[n]].state = "B"

findFlammableCells(field) ==
    {Key(field.cells[i]) : i \in
        {j \in DOMAIN field.cells :
            \/ field.cells[j].state = "B"
            \/ /\ field.cells[j].state = "T"
               /\ BurningNeighbor(field.cells, field.coordMap, Key(field.cells[j]))}}

\* the Tree cells of the frontier that may ignite this generation
Ignitable(field, coordMap, frontier) ==
    {k \in frontier \cap DOMAIN coordMap :
        /\ field.cells[coordMap[k]].state = "T"
        /\ BurningNeighbor(field.cells, coordMap, k)}

\* the outcomes of the ignition trials allowed by the parameters
Ignitions(field, params, coordMap, frontier) ==
    IF params.ignite = "always" THEN {Ignitable(field, coordMap, frontier)}
    ELSE IF params.ignite = "never" THEN {{}}
    ELSE SUBSET Ignitable(field, coordMap, frontier)

\* the transition rule of one cell, evaluated against the field before the tick
NextCell(cell, params, ignites) ==
    IF cell.state = "B"
    THEN IF cell.burnTime + 1 >= params.burnDuration
         THEN [cell EXCEPT !.state = "E", !.burnTime = 0]
         ELSE [cell EXCEPT !.burnTime = cell.burnTime + 1]
    ELSE IF cell.state = "T" /\ ignites
    THEN [cell EXCEPT !.state = "B", !.burnTime = 0]
    ELSE cell

\* one generation; `ignited` is the outcome of this tick's ignition trials
calculateNextGeneration(field, params, flammableCells, coordMap, ignited) ==
    LET scope == {coordMap[k] : k \in flammableCells \cap DOMAIN coordMap}
        cells == [i \in DOMAIN field.cells |->
                     IF i \in scope
                     THEN NextCell(field.cells[i], params, Key(field.cells[i]) \in ignited)
                     ELSE field.cells[i]]
        changed == {i \in scope : cells[i] # field.cells[i]}
        kindled == {Key(cells[i]) : i \in {j \in changed : cells[j].state = "B"
                                                  /\ field.cells[j].state # "B"}}
        candidates == flammableCells \cup
                      ((UNION {Neighbors(k) : k \in kindled}) \cap DOMAIN coordMap)
    IN  [cells |-> cells,
         updatedCellsMap |-> {cells[i] : i \in changed},
         flammableCells |->
            {k \in candidates \cap DOMAIN coordMap :
                \/ cells[coordMap[k]].state = "B"
                \/ BurningNeighbor(cells, coordMap, k)}]

----------------------------------------------------------------------------
(* Streams *)

\* the sessionId of a request: an id handed out, or one never handed out
Ids == 1..nextId

\* a delta event that lost its payload
DeltaOfNothing(updatedCellsMap) == [type |-> "delta", payload |-> {}]

Delta(updatedCellsMap) == [type |-> "delta", payload |-> updatedCellsMap]

End == [type |-> "end", payload |-> {}]

NewStream(id) ==
    [sid |-> id,
     pc |-> "waiting",
     flammableCells |-> findFlammableCells(objs[id].field),
     state |-> "readable",
     cancelled |-> FALSE,
     threw |-> 0,
     events |-> << >>]

GET(id) ==
    /\ Handled
    /\ IF id \notin sessions
       THEN /\ response' = Response("GET", id, 400, 0)
            /\ UNCHANGED streams
       ELSE /\ streams' = Append(streams, NewStream(id))
            /\ response' = Response("GET", id, 200, 0)
    /\ UNCHANGED <<sessions, objs, nextId, request>>

\* the outcomes of controller.close(): the stream closes at once when the
\* consumer has read every chunk, else when the queue is drained
CloseOutcomes(st) ==
    IF st.events = << >> THEN {"closed"} ELSE {"closed", "closing"}

\* Finally without the sessions.delete
FinallyNoDelete(i, st, outcome) ==
    /\ streams' = [streams EXCEPT ![i] =
                      [st EXCEPT !.pc = "ended",
                                 !.state = IF st.state = "readable" THEN outcome ELSE st.state,
                                 !.threw = IF st.state = "readable" THEN st.threw ELSE st.threw + 1]]
    /\ UNCHANGED sessions

\* `finally { controller.close(); sessions.delete(sessionId); }`: close throws
\* on a stream that is no longer readable and the delete is skipped
Finally(i, st, outcome) ==
    IF st.state = "readable"
    THEN /\ streams' = [streams EXCEPT ![i] =
                           [st EXCEPT !.pc = "ended", !.state = outcome]]
         /\ sessions' = sessions \ {st.sid}
    ELSE /\ streams' = [streams EXCEPT ![i] =
                           [st EXCEPT !.pc = "ended", !.threw = st.threw + 1]]
         /\ UNCHANGED sessions

\* send(): nothing once the signal is aborted, else controller.enqueue
send(st, aborted, updatedCellsMap) ==
    IF aborted THEN st
    ELSE [st EXCEPT !.events = Append(st.events, Delta(updatedCellsMap))]

\* LoopExits without the `break`
LoopExitsNoBreak(frontier, aborted) == aborted

\* LoopExits that reads the signal never: the loop runs until the fire is out
LoopExitsWhenBurntOut(frontier, aborted) == frontier = {}

\* the loop is left after an iteration: `break` on an empty frontier, or the
\* while condition finds the signal aborted
LoopExits(frontier, aborted) == frontier = {} \/ aborted

\* the timer of stream i fires: one iteration of the while loop
Tick(i) ==
    /\ i \in DOMAIN streams
    /\ streams[i].pc = "waiting"
    /\ LET sid == streams[i].sid
           session == objs[sid]
       IN  \E ignited \in Ignitions(session.field, session.params,
                                    session.coordMap, streams[i].flammableCells) :
           LET result == calculateNextGeneration(session.field, session.params,
                             streams[i].flammableCells, session.coordMap, ignited)
               st1 == [streams[i] EXCEPT !.flammableCells = result.flammableCells]
               st2 == IF result.updatedCellsMap # {}
                      THEN send(st1, session.aborted, result.updatedCellsMap)
                      ELSE st1
               \* controller.enqueue of the end event throws on a closed stream
               throws == result.flammableCells = {} /\ st2.state # "readable"
               st3 == IF result.flammableCells # {} THEN st2
                      ELSE IF throws THEN [st2 EXCEPT !.threw = st2.threw + 1]
                      ELSE [st2 EXCEPT !.events = Append(st2.events, End)]
           IN  /\ objs' = [objs EXCEPT ![sid].field.cells = result.cells]
               /\ IF throws \/ LoopExits(result.flammableCells, session.aborted)
                  THEN \E outcome \in CloseOutcomes(st3) : Finally(i, st3, outcome)
                  ELSE /\ streams' = [streams EXCEPT ![i] = st3]
                       /\ UNCHANGED sessions
    /\ UNCHANGED <<nextId, response, request, requests>>

\* TickError that takes every loop and every registry entry down with it
TickErrorWedges(i) ==
    /\ i \in DOMAIN streams
    /\ streams[i].pc = "waiting"
    /\ streams' = [j \in DOMAIN streams |->
                      [streams[j] EXCEPT !.pc = "ended",
                                         !.state = IF @ = "readable" THEN "closed" ELSE @]]
    /\ sessions' = {}
    /\ UNCHANGED <<objs, nextId, response, request, requests>>

\* the timer of stream i fires and the generation engine throws
TickError(i) ==
    /\ i \in DOMAIN streams
    /\ streams[i].pc = "waiting"
    /\ \E outcome \in CloseOutcomes(streams[i]) : Finally(i, streams[i], outcome)
    /\ UNCHANGED <<objs, nextId, response, request, requests>>

\* the consumer reads the last queued chunk of a stream whose close is pending
Drain(i) ==
    /\ i \in DOMAIN streams
    /\ streams[i].state = "closing"
    /\ streams' = [streams EXCEPT ![i].state = "closed"]
    /\ UNCHANGED <<sessions, objs, nextId, response, request, requests>>

\* the transport closes stream i: the stream's cancel() callback
Cancel(i) ==
    /\ i \in DOMAIN streams
    /\ streams[i].state \in {"readable", "closing"}
    /\ streams' = [streams EXCEPT ![i].state = "closed", ![i].cancelled = TRUE]
    /\ objs' = [objs EXCEPT ![streams[i].sid].aborted = TRUE]
    /\ sessions' = sessions \ {streams[i].sid}
    /\ UNCHANGED <<nextId, response, request, requests>>

\* DELETE that aborts the signal and leaves the registry entry
DELETEKeepsEntry(id) ==
    /\ Handled
    /\ IF id \notin sessions
       THEN /\ response' = Response("DELETE", id, 400, 0)
            /\ UNCHANGED objs
       ELSE /\ objs' = [objs EXCEPT ![id].aborted = TRUE]
            /\ response' = Response("DELETE", id, 200, 0)
    /\ UNCHANGED <<sessions, nextId, streams, request>>

\* DELETE without the sessions.has check
DELETEUnchecked(id) ==
    /\ Handled
    /\ objs' = IF id \in DOMAIN objs THEN [objs EXCEPT ![id].aborted = TRUE] ELSE objs
    /\ sessions' = sessions \ {id}
    /\ response' = Response("DELETE", id, 200, 0)
    /\ UNCHANGED <<nextId, streams, request>>

DELETE(id) ==
    /\ Handled
    /\ IF id \notin sessions
       THEN /\ response' = Response("DELETE", id, 400, 0)
            /\ UNCHANGED <<sessions, objs>>
       ELSE /\ objs' = [objs EXCEPT ![id].aborted = TRUE]
            /\ sessions' = sessions \ {id}
            /\ response' = Response("DELETE", id, 200, 0)
    /\ UNCHANGED <<nextId, streams, request>>

----------------------------------------------------------------------------

Init ==
    /\ sessions = {}
    /\ objs = << >>
    /\ nextId = 1
    /\ streams = << >>
    /\ response = NoResponse
    /\ request = NoRequest
    /\ requests = 0

\* the index the client's own dense field gives a coordinate
IndexOf(w, h, k) == (k[2] - startOf(h)) * SpanOf(w) + (k[1] - startOf(w))

\* the sparse list and coords a well-formed client sends: no cell (a forest
\* with no fire), or the centre cell set on fire, with its own index
WellFormed(w, h) ==
    {<< << >>, << >> >>} \cup
    {<< <<cell>>, [k \in {Key(cell)} |-> IndexOf(w, h, k)] >> :
        cell \in {c \in SuppliedCell : Key(c) = <<0, 0>> /\ c.state = "B"}}

Create ==
    \E sc \in WellFormed(2, 1) : POST(Body(Parts, 2, 1, sc[1], sc[2]))

\* a create request with some required part absent
CreateMissing ==
    \E P \in (SUBSET Parts) \ {Parts} : POST(Body(P, 2, 1, << >>, << >>))

Next ==
    \/ Create
    \/ CreateMissing
    \/ \E id \in Ids : GET(id)
    \/ \E id \in Ids : DELETE(id)
    \/ \E i \in DOMAIN streams : Tick(i)
    \/ \E i \in DOMAIN streams : TickError(i)
    \/ \E i \in DOMAIN streams : Drain(i)
    \/ \E i \in DOMAIN streams : Cancel(i)

Spec == Init /\ [][Next]_vars

\* the same handlers and steps, with MaxFairRequests well-formed requests
NextFair ==
    \/ requests < MaxFairRequests /\ Create
    \/ requests < MaxFairRequests /\ \E id \in Ids : GET(id)
    \/ requests < MaxFairRequests /\ \E id \in Ids : DELETE(id)
    \/ \E i \in DOMAIN streams : Tick(i)
    \/ \E i \in DOMAIN streams : TickError(i)
    \/ \E i \in DOMAIN streams : Drain(i)
    \/ \E i \in DOMAIN streams : Cancel(i)

\* the timer a suspended loop awaits (`setTimeout(resolve, updateInterval)`)
\* eventually fires and the iteration runs
SpecFair ==
    /\ Init
    /\ [][NextFair]_vars
    /\ \A i \in 1..MaxFairRequests : WF_vars(TickError(i) \/ Tick(i))

\* a request with some required part absent (`!field || !params || !coords`)
CreatePartial ==
    /\ response = NoResponse
    /\ \E P \in (SUBSET Parts) \ {Parts} : POST(Body(P, 1, 1, << >>, << >>))

\* a request with all parts, any dimensions, sparse cell list and coords
CreateFull ==
    /\ response = NoResponse
    /\ \E w \in -1..MaxW, h \in -1..MaxH, s \in SuppliedLists :
          \E c \in CoordsFor(w, h, s) : POST(Body(Parts, w, h, s, c))

\* one create request against the empty registry
NextCreate == CreatePartial \/ CreateFull

SpecCreate == Init /\ [][NextCreate]_vars

----------------------------------------------------------------------------
(* Properties *)

\* C5 is stated per stream, as the consumer of a stream observes it: when
\* two streams are attached to one session (see C1) each stream carries its
\* own completion event.

\* the ids handed out so far
Created == 1..(nextId - 1)

Aborted(id) == id \in DOMAIN objs /\ objs[id].aborted

LastIsEnd(st) == st.events # << >> /\ st.events[Len(st.events)].type = "end"

\* C1: at most one stream is ever attached to a session: no two streams
\* created by GET share a session id.
C1_AtMostOneStream ==
    \A i, j \in DOMAIN streams : streams[i].sid = streams[j].sid => i = j

\* C2: once a session's cancellation signal has fired, no step appends an
\* event (delta or completion) to any stream of that session.
C2_NoEventAfterCancel ==
    [][\A i \in DOMAIN streams :
          Aborted(streams[i].sid) => streams'[i].events = streams[i].events]_vars

\* C3: cancel is idempotent: DELETE on an id that was created and is no
\* longer registered (cancelled before, or its stream completed) returns
\* success.
C3_CancelIdempotent ==
    [][\A id \in Ids :
          (id \in Created /\ id \notin sessions /\ DELETE(id))
              => response'.status = 200]_vars

\* C4: cancellation preempts the wait: once a session's signal has fired no
\* step advances its field, nor the frontier of any of its streams.
C4_CancelPreemptsWait ==
    [][\A i \in DOMAIN streams :
          Aborted(streams[i].sid) =>
              /\ objs'[streams[i].sid].field = objs[streams[i].sid].field
              /\ streams'[i].flammableCells = streams[i].flammableCells]_vars

C6_EndedNotRegistered ==
    \A i \in DOMAIN streams : streams[i].pc = "ended" => streams[i].sid \notin sessions

\* one loop ended by completion and another after a transport close, where
\* controller.close() threw and the finally block skipped its delete
C6_Witness ==
    \E i, j \in DOMAIN streams :
        /\ streams[i].pc = "ended" /\ LastIsEnd(streams[i])
        /\ streams[j].pc = "ended" /\ streams[j].cancelled /\ streams[j].threw > 0

\* a session id no longer usable: never created, cancelled, or one of its
\* streams ended
Gone(id) ==
    \/ id \notin Created
    \/ Aborted(id)
    \/ \E i \in DOMAIN streams : streams[i].sid = id /\ streams[i].pc = "ended"

\* C7: GET on an id that was never created, already completed or already
\* cancelled answers with an error and creates no stream.
C7_AttachUnknownFails ==
    [][\A id \in Ids :
          (Gone(id) /\ GET(id)) =>
              /\ response' = Response("GET", id, 400, 0)
              /\ streams' = streams]_vars

\* the last request was a GET, refused, on a session whose stream had
\* completed without any cancellation
C7_Witness ==
    /\ response.op = "GET" /\ response.status = 400
    /\ \E i \in DOMAIN streams :
          /\ streams[i].sid = response.id
          /\ LastIsEnd(streams[i])
          /\ ~Aborted(response.id)

\* C8: DELETE on an id that was never created answers with an error, and
\* changes neither the registry nor any session's cancellation signal.
C8_CancelUnknownFails ==
    [][\A id \in Ids :
          (id \notin Created /\ DELETE(id)) =>
              /\ response' = Response("DELETE", id, 400, 0)
              /\ sessions' = sessions
              /\ \A j \in DOMAIN objs : objs'[j].aborted = objs[j].aborted]_vars

\* the last request was a DELETE, refused, on an id never handed out, while
\* another session was registered
C8_Witness ==
    /\ response.op = "DELETE" /\ response.status = 400
    /\ response.id \notin Created
    /\ sessions # {}

\* the dense field stored by the last successful create request
Stored == objs[response.sessionId].field

Succeeded == response.op = "POST" /\ response.status = 200

\* C9: after a successful create (with positive dimensions, where the box is
\* defined) the stored field has width * height cells, every coordinate of
\* the centred box is held by exactly one cell, and the coordinate index
\* maps it to the position of that cell.
C9_DenseFieldInvariant ==
    (Succeeded /\ Stored.width > 0 /\ Stored.height > 0) =>
        /\ Cardinality(DOMAIN Stored.cells) = Stored.width * Stored.height
        /\ \A k \in Box(Stored.width, Stored.height) :
              /\ Cardinality({i \in DOMAIN Stored.cells : Key(Stored.cells[i]) = k}) = 1
              /\ k \in DOMAIN Stored.coordMap
              /\ Key(Stored.cells[Stored.coordMap[k]]) = k

\* C10: no session is stored from invalid grid input: every registered
\* session has positive dimensions and no cell outside its bounding box.
C10_InvalidInputRejected ==
    \A id \in sessions :
        /\ objs[id].field.width > 0
        /\ objs[id].field.height > 0
        /\ \A i \in DOMAIN objs[id].field.cells :
              Key(objs[id].field.cells[i]) \in Box(objs[id].field.width, objs[id].field.height)

\* the cells of the last create request, as a set
Overrides == {request.field.cells[i] : i \in DOMAIN request.field.cells}

\* the last create request is a sparse description: positive dimensions and
\* Burning/Empty overrides at in-box coordinates, one per coordinate
SparseDescription ==
    /\ request.present = Parts
    /\ request.field.width > 0 /\ request.field.height > 0
    /\ \A c \in Overrides :
          /\ c.state \in {"B", "E"}
          /\ Key(c) \in Box(request.field.width, request.field.height)
    /\ \A c, d \in Overrides : Key(c) = Key(d) => c = d

NonTree(cells) == {cells[i] : i \in {j \in DOMAIN cells : cells[j].state # "T"}}

\* C11: reconstruction round-trip: after a successful create from a sparse
\* description, the non-Tree cells of the stored dense field are exactly the
\* overrides supplied, and every other cell is a Tree with burnTime 0.
C11_RoundTrip ==
    (Succeeded /\ SparseDescription) =>
        /\ NonTree(Stored.cells) = Overrides
        /\ \A i \in DOMAIN Stored.cells :
              Stored.cells[i].state = "T" => Stored.cells[i].burnTime = 0

\* C13: a create request with field, params or coords absent answers with
\* the missing-input error, returns no session id and adds no session.
C13_MissingInputFails ==
    [][(response'.op = "POST" /\ requests' # requests /\ request'.present # Parts) =>
          /\ response'.status = 400
          /\ response'.sessionId = 0
          /\ sessions' = sessions
          /\ objs' = objs
          /\ nextId' = nextId]_vars

\* the last create request had field and params but no coords, and was
\* refused while another session was registered
C13_Witness ==
    /\ response.op = "POST" /\ response.status = 400
    /\ request.present = {"field", "params"}
    /\ sessions # {}

\* C12: a stream attached to a session with an empty initial frontier (the
\* loop is suspended with an empty frontier only before its first tick) and
\* not cancelled emits, at its first timer expiry, the completion event as
\* its only event and stops; a stopped stream emits nothing more.
C12_EmptyFrontierCompletes ==
    [][\A i \in DOMAIN streams :
          /\ (/\ streams[i].pc = "waiting"
              /\ streams[i].flammableCells = {}
              /\ ~Aborted(streams[i].sid)
              /\ Tick(i))
               => /\ streams'[i].events = <<End>>
                  /\ streams'[i].pc = "ended"
          /\ streams[i].pc = "ended" => streams'[i].events = streams[i].events]_vars

\* a stream on a forest without fire that stopped, never cancelled, with
\* the completion event as its only event
C12_Witness ==
    \E i \in DOMAIN streams :
        /\ streams[i].pc = "ended"
        /\ streams[i].events = <<End>>
        /\ ~Aborted(streams[i].sid)
        /\ \A j \in DOMAIN objs[streams[i].sid].field.cells :
              objs[streams[i].sid].field.cells[j].state = "T"

\* the cells of session id that a step changed, as they are after the step
ChangedCells(id) ==
    {objs'[id].field.cells[j] : j \in
        {k \in DOMAIN objs[id].field.cells :
            objs'[id].field.cells[k] # objs[id].field.cells[k]}}

\* the events a step appended to stream i
Appended(i) ==
    SubSeq(streams'[i].events, Len(streams[i].events) + 1, Len(streams'[i].events))

\* C14: the loop of a stream is strictly sequential.  Between two of its
\* timer expiries nothing changes its frontier or its events, so generation
\* n+1 starts from the frontier generation n left.  One timer expiry
\* computes one generation and hands over, in the same step and before
\* anything else, at most one delta, which carries exactly the cells that
\* generation changed, followed at most by the completion event; a changed
\* generation goes without its delta only on a cancelled session, whose
\* loop then stops.
C14_SequentialLoop ==
    [][\A i \in DOMAIN streams :
          LET sid == streams[i].sid
              delta == [type |-> "delta", payload |-> ChangedCells(sid)]
          IN  IF Tick(i)
              THEN /\ SubSeq(streams'[i].events, 1, Len(streams[i].events)) = streams[i].events
                   /\ \/ /\ ChangedCells(sid) # {}
                         /\ Appended(i) \in {<<delta>>, <<delta, End>>}
                      \/ /\ ChangedCells(sid) = {}
                         /\ Appended(i) \in {<< >>, <<End>>}
                      \/ /\ Aborted(sid)
                         /\ Appended(i) \in {<< >>, <<End>>}
                         /\ streams'[i].pc = "ended"
              ELSE /\ streams'[i].flammableCells = streams[i].flammableCells
                   /\ streams'[i].events = streams[i].events]_vars

\* a stream that handed over the deltas of two generations, then completed
C14_Witness ==
    \E i \in DOMAIN streams :
        /\ Len(streams[i].events) = 3
        /\ streams[i].events[1].type = "delta"
        /\ streams[i].events[2].type = "delta"
        /\ streams[i].events[1].payload # streams[i].events[2].payload
        /\ streams[i].events[3] = End

\* C15: an engine error during a tick of stream i ends that loop only: the
\* loop is over (and an ended loop never runs or changes again, so there is
\* no further tick and no retry), close has been called on its stream, its
\* session is out of the registry, no field is touched, and the registry
\* entries and the streams of every other session are as they were.
C15_EngineErrorIsLocal ==
    [][\A i \in DOMAIN streams :
          /\ TickError(i) =>
                /\ streams'[i].pc = "ended"
                /\ streams'[i].state \in {"closing", "closed"}
                /\ streams'[i].events = streams[i].events
                /\ streams[i].sid \notin sessions'
                /\ sessions' \ {streams[i].sid} = sessions \ {streams[i].sid}
                /\ objs' = objs
                /\ \A j \in DOMAIN streams :
                      streams[j].sid # streams[i].sid => streams'[j] = streams[j]
          /\ streams[i].pc = "ended" =>
                /\ streams'[i].pc = "ended"
                /\ streams'[i].events = streams[i].events
                /\ ~Tick(i) /\ ~TickError(i)]_vars

\* the loop of one session was ended by an engine error (no completion
\* event, never cancelled) while another session is registered and running
C15_Witness ==
    \E i, j \in DOMAIN streams :
        /\ streams[i].sid # streams[j].sid
        /\ streams[i].pc = "ended"
        /\ ~Aborted(streams[i].sid)
        /\ ~LastIsEnd(streams[i])
        /\ streams[i].sid \notin sessions
        /\ streams[j].pc = "waiting"
        /\ streams[j].sid \in sessions

\* C16: registry consistency: every stream whose loop is still running and
\* whose session's cancellation signal has not fired has its session id in
\* the registry (so DELETE can still reach it).
C16_RunningIsRegistered ==
    \A i \in DOMAIN streams :
        (streams[i].pc = "waiting" /\ ~Aborted(streams[i].sid))
            => streams[i].sid \in sessions

\* C17: once the transport has cancelled a stream, the producer uses its
\* controller no more: every enqueue and every close on a cancelled stream
\* throws, so no such call is ever counted.
C17_NoControllerUseAfterCancel ==
    \A i \in DOMAIN streams : streams[i].cancelled => streams[i].threw = 0

\* C18: every cancelled stream eventually stops.  With timers that fire, a
\* stream whose session's signal was aborted (by DELETE or by a transport
\* close) reaches the end of its loop, and it does so at its next timer
\* expiry: the iteration that runs on an aborted session is the loop's last.
C18_CancelledStops ==
    /\ \A i \in 1..MaxFairRequests :
          (i \in DOMAIN streams /\ Aborted(streams[i].sid))
              ~> (i \in DOMAIN streams /\ streams[i].pc = "ended")
    /\ [][\A i \in DOMAIN streams :
             (Aborted(streams[i].sid) /\ (Tick(i) \/ TickError(i)))
                 => streams'[i].pc = "ended"]_vars

\* a loop that stopped because of the cancellation, with fire left to spread
C18_Witness ==
    \E i \in DOMAIN streams :
        /\ Aborted(streams[i].sid)
        /\ streams[i].pc = "ended"
        /\ streams[i].flammableCells # {}

====
